---------------------------- MODULE Spec2Model ----------------------------
(***************************************************************************)
(* A model of the Slack productivity bot of src/main.py: the in-memory    *)
(* task store (tasks_db, user_tasks), the natural-language extractor      *)
(* parse_natural_language, the formatters and the slash-command handler   *)
(* handle_slack_command.                                                   *)
(*                                                                         *)
(* Text is modelled by TLA+ strings, read character by character: Python  *)
(* str methods (strip, split, lower, replace) and the regular expressions *)
(* of the extractor are operators written after their semantics.  Emoji   *)
(* of the replies are written as Slack short codes (":x:"), and the       *)
(* backquotes of the replies as apostrophes.                               *)
(***************************************************************************)
EXTENDS Integers, Sequences, FiniteSets, TLC

(***************************************************************************)
(* Bounds of the model.                                                    *)
(***************************************************************************)
\* number of distinct values the 8-hex-digit id generator can return
NumIds == 2
\* number of calling users
NumUsers == 2
\* the clock runs from 0 to MaxNow ticks
MaxNow == 1
\* create is not issued when the indexes together already hold this many ids
MaxIndexed == 2

\* the calls of the handler that can be in flight together
NumHandlers == 3

(***************************************************************************)
(* Python str primitives.                                                  *)
(***************************************************************************)
Char(s, i) == IF i >= 1 /\ i <= Len(s) THEN SubSeq(s, i, i) ELSE ""

UpperChars == "ABCDEFGHIJKLMNOPQRSTUVWXYZ"
LowerChars == "abcdefghijklmnopqrstuvwxyz"
DigitChars == "0123456789"

IsSpace(c) == c \in {" ", "\n", "\t"}
IsDigit(c) == c \in {"0", "1", "2", "3", "4", "5", "6", "7", "8", "9"}

\* the lower-case letter of every upper-case letter, and the reverse
LowerOf == [c \in {Char(UpperChars, i) : i \in 1..26} |->
               Char(LowerChars, CHOOSE i \in 1..26 : Char(UpperChars, i) = c)]
UpperOf == [c \in {Char(LowerChars, i) : i \in 1..26} |->
               Char(UpperChars, CHOOSE i \in 1..26 : Char(LowerChars, i) = c)]

LowerChar(c) == IF c \in DOMAIN LowerOf THEN LowerOf[c] ELSE c

\* str.lower(), from position i of s on
RECURSIVE LowerFrom(_, _)
LowerFrom(s, i) == IF i > Len(s) THEN "" ELSE LowerChar(Char(s, i)) \o LowerFrom(s, i + 1)

Lower(s) == LowerFrom(s, 1)

\* str.title() as far as format_task_response uses it: the first letter of
\* every run of letters is upper-cased, the others lower-cased
UpperChar(c) == IF c \in DOMAIN UpperOf THEN UpperOf[c] ELSE c

IsAlpha(c) == c \in DOMAIN LowerOf \/ c \in DOMAIN UpperOf

\* from position i of s on; a letter at i follows a letter exactly when i - 1 is
\* a letter
RECURSIVE TitleFrom(_, _)
TitleFrom(s, i) ==
    IF i > Len(s) THEN ""
    ELSE (IF IsAlpha(Char(s, i - 1)) THEN LowerChar(Char(s, i)) ELSE UpperChar(Char(s, i)))
         \o TitleFrom(s, i + 1)

Title(s) == TitleFrom(s, 1)

\* number of characters from position i on that satisfy / do not satisfy IsSpace
RECURSIVE WsRunLen(_, _)
WsRunLen(s, i) == IF i <= Len(s) /\ IsSpace(Char(s, i)) THEN 1 + WsRunLen(s, i + 1) ELSE 0

RECURSIVE NonWsRunLen(_, _)
NonWsRunLen(s, i) ==
    IF i <= Len(s) /\ ~IsSpace(Char(s, i)) THEN 1 + NonWsRunLen(s, i + 1) ELSE 0

RECURSIVE DigitRunLen(_, _)
DigitRunLen(s, i) == IF i <= Len(s) /\ IsDigit(Char(s, i)) THEN 1 + DigitRunLen(s, i + 1) ELSE 0

\* number of blanks that end at position i
RECURSIVE TrailingWsLen(_, _)
TrailingWsLen(s, i) == IF i >= 1 /\ IsSpace(Char(s, i)) THEN 1 + TrailingWsLen(s, i - 1) ELSE 0

\* str.strip()
Strip(s) ==
    LET a == WsRunLen(s, 1)
    IN  IF a = Len(s) THEN "" ELSE SubSeq(s, a + 1, Len(s) - TrailingWsLen(s, Len(s)))

\* w occurs in s at position i
StartsAt(s, i, w) == i >= 1 /\ i + Len(w) - 1 <= Len(s) /\ SubSeq(s, i, i + Len(w) - 1) = w

\* str.find(w) + 1: the first position of w in s, 0 when there is none
Find(s, w) ==
    LET found == {i \in 1..Len(s) : StartsAt(s, i, w)}
    IN  IF found = {} THEN 0 ELSE CHOOSE i \in found : \A j \in found : i <= j

\* w in s
Contains(s, w) == w = "" \/ Find(s, w) > 0

\* s from position i on without the occurrences of w, taken left to right
RECURSIVE RemoveFrom(_, _, _)
RemoveFrom(s, w, i) ==
    IF i > Len(s) THEN ""
    ELSE IF StartsAt(s, i, w) THEN RemoveFrom(s, w, i + Len(w))
    ELSE Char(s, i) \o RemoveFrom(s, w, i + 1)

\* str.replace(w, ""): every non-overlapping occurrence, left to right
RemoveAll(s, w) == IF w = "" THEN s ELSE RemoveFrom(s, w, 1)

\* int(digits)
RECURSIVE ToInt(_)
ToInt(d) ==
    IF d = "" THEN 0
    ELSE 10 * ToInt(SubSeq(d, 1, Len(d) - 1))
         + (CHOOSE n \in 0..9 : Char(DigitChars, n + 1) = Char(d, Len(d)))

\* str(n) for n >= 0
RECURSIVE ToStr(_)
ToStr(n) ==
    IF n < 10 THEN Char(DigitChars, n + 1)
    ELSE ToStr(n \div 10) \o Char(DigitChars, (n % 10) + 1)

\* str.split(None, maxsplit): the words of s, at most maxsplit + 1 parts, the
\* last part being the rest of s from its first non-blank character on
RECURSIVE SplitWs(_, _)
SplitWs(s, maxsplit) ==
    LET a    == WsRunLen(s, 1)
        rest == SubSeq(s, a + 1, Len(s))
        n    == NonWsRunLen(rest, 1)
    IN  IF rest = "" THEN <<>>
        ELSE IF maxsplit = 0 THEN <<rest>>
        ELSE <<SubSeq(rest, 1, n)>> \o SplitWs(SubSeq(rest, n + 1, Len(rest)), maxsplit - 1)

\* " ".join(parts)
RECURSIVE JoinSpace(_)
JoinSpace(parts) ==
    IF parts = <<>> THEN ""
    ELSE IF Len(parts) = 1 THEN parts[1]
    ELSE parts[1] \o " " \o JoinSpace(Tail(parts))


(***************************************************************************)
(* The clock.  A timestamp is a number of ticks since the start of the    *)
(* model's day 0, which is 1 January of EpochYear, a Monday, 00:00.       *)
(***************************************************************************)
\* strftime('%Y-%m-%d %H:%M') keeps minutes and drops seconds: ticks per minute
TicksPerMinute == 2
TicksPerDay == 1440 * TicksPerMinute
EpochYear == 2018

\* Optional[...]: None is the empty tuple, a value v is <<v>>
None == <<>>
Some(v) == <<v>>

(***************************************************************************)
(* The regular expressions of deadline_patterns, with re.IGNORECASE.  A   *)
(* match is [start, end] (both 0 when the pattern does not match); each   *)
(* ...At operator gives the end of the match that starts at position i,   *)
(* 0 when there is none, and re.search takes the leftmost start.          *)
(***************************************************************************)
NoMatch == [start |-> 0, end |-> 0]

StartsAtCI(s, i, w) ==
    i >= 1 /\ i + Len(w) - 1 <= Len(s) /\ Lower(SubSeq(s, i, i + Len(w) - 1)) = w

\* the end of the first alternative of words that matches at i
RECURSIVE WordsAt(_, _, _)
WordsAt(s, i, words) ==
    IF words = <<>> THEN 0
    ELSE IF StartsAtCI(s, i, Head(words)) THEN i + Len(Head(words)) - 1
    ELSE WordsAt(s, i, Tail(words))

\* (by|due|deadline|until)\s+(.+?)(?:\s+|$)
PrepositionAt(s, i) ==
    LET kwEnd == WordsAt(s, i, <<"by", "due", "deadline", "until">>)
        j     == kwEnd + 1
        w     == WsRunLen(s, j)
        p     == j + w
        q     == p + NonWsRunLen(s, p)
    IN  IF kwEnd = 0 \/ w = 0 THEN 0
        ELSE IF p <= Len(s)
             \* \s+ takes the blanks, .+? the word after them, \s+ the blanks after it
             THEN q - 1 + WsRunLen(s, q)
             \* the blanks run to the end of the text: \s+ gives one back to
             \* the dot, which matches any character except a newline
             ELSE IF \E m \in 2..w : Char(s, j + m - 1) # "\n" THEN Len(s) ELSE 0

\* (tomorrow|today|next week|next month)
RelativeAt(s, i) == WordsAt(s, i, <<"tomorrow", "today", "next week", "next month">>)

\* the end of \d{1,2}/ at i
DayMonthSlashAt(s, i) ==
    IF IsDigit(Char(s, i)) /\ IsDigit(Char(s, i + 1)) /\ Char(s, i + 2) = "/" THEN i + 2
    ELSE IF IsDigit(Char(s, i)) /\ Char(s, i + 1) = "/" THEN i + 1
    ELSE 0

\* (\d{1,2}/\d{1,2}/\d{4})
DateWithYearAt(s, i) ==
    LET a == DayMonthSlashAt(s, i)
        b == IF a = 0 THEN 0 ELSE DayMonthSlashAt(s, a + 1)
    IN  IF b # 0 /\ \A k \in 1..4 : IsDigit(Char(s, b + k)) THEN b + 4 ELSE 0

\* (\d{1,2}/\d{1,2})
DateAt(s, i) ==
    LET a == DayMonthSlashAt(s, i)
    IN  IF a = 0 \/ ~IsDigit(Char(s, a + 1)) THEN 0
        ELSE IF IsDigit(Char(s, a + 2)) THEN a + 2 ELSE a + 1

\* (in\s+\d+\s+days?)
InDaysAt(s, i) ==
    LET w1 == WsRunLen(s, i + 2)
        d  == i + 2 + w1
        n  == DigitRunLen(s, d)
        w2 == WsRunLen(s, d + n)
        k  == d + n + w2
    IN  IF StartsAtCI(s, i, "in") /\ w1 > 0 /\ n > 0 /\ w2 > 0 /\ StartsAtCI(s, k, "day")
        THEN IF Lower(Char(s, k + 3)) = "s" THEN k + 3 ELSE k + 2
        ELSE 0

\* (monday|tuesday|wednesday|thursday|friday|saturday|sunday)
Weekdays == <<"monday", "tuesday", "wednesday", "thursday", "friday", "saturday", "sunday">>
WeekdayAt(s, i) == WordsAt(s, i, Weekdays)

\* the end of the match of deadline_patterns[n] at i
PatternAt(n, s, i) ==
    CASE n = 1 -> PrepositionAt(s, i)
      [] n = 2 -> RelativeAt(s, i)
      [] n = 3 -> DateWithYearAt(s, i)
      [] n = 4 -> DateAt(s, i)
      [] n = 5 -> InDaysAt(s, i)
      [] n = 6 -> WeekdayAt(s, i)

NumPatterns == 6

\* re.search(deadline_patterns[n], text, re.IGNORECASE)
RECURSIVE SearchFrom(_, _, _)
SearchFrom(n, s, i) ==
    IF i > Len(s) THEN NoMatch
    ELSE IF PatternAt(n, s, i) > 0 THEN [start |-> i, end |-> PatternAt(n, s, i)]
    ELSE SearchFrom(n, s, i + 1)

re_search(n, s) == SearchFrom(n, s, 1)

\* a search that takes the match that starts leftmost in the text, whatever
\* the place of its pattern in the list
FirstMatchFrom_leftmost(n, s) ==
    LET hits == {k \in n..NumPatterns : re_search(k, s).start > 0}
    IN  IF hits = {} THEN [pattern |-> 0, start |-> 0, end |-> 0]
        ELSE LET k == CHOOSE k \in hits : \A j \in hits :
                          \/ re_search(k, s).start < re_search(j, s).start
                          \/ re_search(k, s).start = re_search(j, s).start /\ k <= j
             IN  [pattern |-> k, start |-> re_search(k, s).start, end |-> re_search(k, s).end]

\* the loop over deadline_patterns: the match of the first pattern that matches
RECURSIVE FirstMatchFrom(_, _)
FirstMatchFrom(n, s) ==
    IF n > NumPatterns THEN [pattern |-> 0, start |-> 0, end |-> 0]
    ELSE LET m == re_search(n, s)
         IN  IF m.start > 0 THEN [pattern |-> n, start |-> m.start, end |-> m.end]
             ELSE FirstMatchFrom(n + 1, s)

FirstMatch(s) == FirstMatchFrom(1, s)

(***************************************************************************)
(* dateutil's parser.parse, as far as the extractor reaches it.  The      *)
(* library is not part of the repository: it is modelled by the formats   *)
(* the patterns can hand it.  A text that starts with a word the parser   *)
(* does not know (by, due, deadline, until) raises; a weekday name gives  *)
(* the next such day at 00:00; month/day[/year] gives that date at 00:00  *)
(* and raises when the numbers are no calendar date.                      *)
(***************************************************************************)
DaysBeforeMonth == <<0, 31, 59, 90, 120, 151, 181, 212, 243, 273, 304, 334>>
DaysInMonth == <<31, 28, 31, 30, 31, 30, 31, 31, 30, 31, 30, 31>>

IndexOfWeekday(w) == CHOOSE k \in 1..7 : Weekdays[k] = w

\* the parts of a/b or a/b/c
DateFields(frag) ==
    LET p1   == Find(frag, "/")
        rest == SubSeq(frag, p1 + 1, Len(frag))
        p2   == Find(rest, "/")
    IN  [a |-> ToInt(SubSeq(frag, 1, p1 - 1)),
         b |-> ToInt(IF p2 = 0 THEN rest ELSE SubSeq(rest, 1, p2 - 1)),
         hasYear |-> p2 # 0,
         year |-> IF p2 = 0 THEN EpochYear ELSE ToInt(SubSeq(rest, p2 + 1, Len(rest)))]

dateutil_parse(frag, at) ==
    LET low   == Lower(frag)
        today == at \div TicksPerDay
    IN  IF \E k \in 1..7 : Weekdays[k] = low
        THEN Some((today + ((IndexOfWeekday(low) - 1 - today) % 7)) * TicksPerDay)
        ELSE IF IsDigit(Char(frag, 1))
        THEN LET f == DateFields(frag)
                 \* month first; day first when the first number is no month
                 m == IF f.a <= 12 THEN f.a ELSE f.b
                 d == IF f.a <= 12 THEN f.b ELSE f.a
             IN  IF m >= 1 /\ m <= 12 /\ d >= 1 /\ d <= DaysInMonth[m] /\ f.year >= 1
                 THEN Some(((f.year - EpochYear) * 365 + DaysBeforeMonth[m] + d - 1)
                           * TicksPerDay)
                 ELSE None
        ELSE None

(***************************************************************************)
(* parse_natural_language                                                  *)
(***************************************************************************)
\* a search for one digit, \d in place of \d+
FirstDigits_oneDigit(frag) ==
    IF \E i \in 1..Len(frag) : IsDigit(Char(frag, i))
    THEN LET i == CHOOSE i \in 1..Len(frag) :
                      IsDigit(Char(frag, i)) /\ \A j \in 1..(i - 1) : ~IsDigit(Char(frag, j))
         IN  SubSeq(frag, i, i)
    ELSE ""

\* re.search(r'\d+', deadline_text): the first run of digits, "" when there is none
FirstDigits(frag) ==
    IF \E i \in 1..Len(frag) : IsDigit(Char(frag, i))
    THEN LET i == CHOOSE i \in 1..Len(frag) :
                      IsDigit(Char(frag, i)) /\ \A j \in 1..(i - 1) : ~IsDigit(Char(frag, j))
         IN  SubSeq(frag, i, i + DigitRunLen(frag, i) - 1)
    ELSE ""

\* the try block: the deadline of the matched fragment, None when it raises
ResolveDeadline(frag, at) ==
    LET low == Lower(frag)
    IN  IF Contains(low, "tomorrow") THEN Some(at + TicksPerDay)
        ELSE IF Contains(low, "today")
        THEN Some((at \div TicksPerDay) * TicksPerDay
                  + (23 * 60 + 59) * TicksPerMinute + (at % TicksPerMinute))
        ELSE IF Contains(low, "next week") THEN Some(at + 7 * TicksPerDay)
        ELSE IF Contains(low, "next month") THEN Some(at + 30 * TicksPerDay)
        ELSE IF Contains(low, "in") /\ Contains(low, "day")
        THEN \* int(None.group()) raises when the fragment has no digit
             IF FirstDigits(frag) = "" THEN None
             ELSE Some(at + ToInt(FirstDigits(frag)) * TicksPerDay)
        ELSE dateutil_parse(frag, at)

\* deadline_text: the text of the first match, "" when no pattern matches
DeadlineText(text) ==
    LET m == FirstMatch(text)
    IN  IF m.pattern = 0 THEN "" ELSE SubSeq(text, m.start, m.end)

\* text after "Remove deadline text from the main text"
StripDeadline(text, deadline_text) ==
    IF deadline_text # "" THEN Strip(RemoveAll(text, deadline_text)) ELSE text

\* a split of a single line at its last period
SplitTitle_lastPeriod(text) ==
    LET nl    == Find(text, "\n")
        dots  == {i \in 1..Len(text) : Char(text, i) = "."}
        dot   == IF dots = {} THEN 0 ELSE CHOOSE i \in dots : \A j \in dots : j <= i
        line0 == IF nl = 0 THEN text ELSE SubSeq(text, 1, nl - 1)
        title == IF nl = 0 /\ dot # 0 THEN Strip(SubSeq(text, 1, dot - 1)) ELSE Strip(line0)
        description ==
            IF nl # 0 THEN Some(Strip(SubSeq(text, nl + 1, Len(text))))
            ELSE IF dot # 0 THEN Some(Strip(SubSeq(text, dot + 1, Len(text))))
            ELSE None
    IN  [title |-> IF title # "" THEN title ELSE text, description |-> description]

\* title and description of the deadline-stripped text
SplitTitle(text) ==
    LET nl    == Find(text, "\n")
        dot   == Find(text, ".")
        line0 == IF nl = 0 THEN text ELSE SubSeq(text, 1, nl - 1)
        title == IF nl = 0 /\ dot # 0 THEN Strip(SubSeq(text, 1, dot - 1)) ELSE Strip(line0)
        description ==
            IF nl # 0 THEN Some(Strip(SubSeq(text, nl + 1, Len(text))))
            ELSE IF dot # 0 THEN Some(Strip(SubSeq(text, dot + 1, Len(text))))
            ELSE None
    IN  [title |-> IF title # "" THEN title ELSE text, description |-> description]

\* what the function returns for a text whose deadline_text is known
TaskData(text, deadline_text, at) ==
    LET deadline == IF deadline_text = "" THEN None ELSE ResolveDeadline(deadline_text, at)
    IN  CHOOSE task_data \in
            {[title |-> t.title, description |-> t.description, deadline |-> deadline] :
                t \in {SplitTitle(stripped) :
                          stripped \in {StripDeadline(text, deadline_text)}}} : TRUE

parse_natural_language(text, at) ==
    CHOOSE task_data \in
        {TaskData(text, deadline_text, at) : deadline_text \in {DeadlineText(text)}} : TRUE

(***************************************************************************)
(* The state.                                                              *)
(***************************************************************************)
VARIABLES
    tasks_db,      \* task id -> Task                         (main.py line 38)
    user_tasks,    \* user id -> list of task ids             (main.py line 39)
    now,           \* datetime.now() as the latest create read it
    request,       \* the latest command: [user_id, text]
    response,      \* its reply: [response_type, text]
    outcome,       \* the return statement it took: [kind, task_id]
    created_ids,   \* history: every id generate_task_id has returned
    deleted_ids,   \* history: ids deleted and not returned by generate_task_id since
    memo,          \* history: a show or list remembered since the latest
                   \* create, update or delete: the store before it, its
                   \* reply, and the reply of the latest show or list like it
    owner,         \* history: task id -> the user whose create was given it last
    handlers,      \* the calls of handle_slack_command in flight: where each
                   \* stands, its form data and its result
    input,         \* an argument of parse_natural_language: [text, at]
    extracted      \* what parse_natural_language returned for it

vars == <<tasks_db, user_tasks, now, request, response, outcome,
          created_ids, deleted_ids, memo, owner, handlers, input, extracted>>

Users == {"U" \o ToStr(u) : u \in 1..NumUsers}

\* str(uuid.uuid4())[:8]: eight hexadecimal digits
TaskIds == {"7f3a9c0" \o ToStr(i) : i \in 1..NumIds}

Statuses == {"pending", "in_progress", "completed"}

(***************************************************************************)
(* The command lines the users send.                                       *)
(***************************************************************************)
CreateLines ==
    {"create", "Create by tomorrow", "create Call client. Discuss terms"}

StatusWords == {"pending", "IN_PROGRESS", "completed", "done"}

OtherLines == {"", " list ", "show", "delete", "remove 7f3a9c01"}

CommandTexts ==
    CreateLines \cup OtherLines
    \cup {"show " \o t : t \in TaskIds}
    \cup {"delete  " \o t : t \in TaskIds}
    \cup {"update " \o t : t \in TaskIds}
    \cup {"update " \o t \o " " \o w : t \in TaskIds, w \in StatusWords}

\* text = form_data.get("text", "").strip(); parts = text.split(None, 2)
SplitCommand(text) == SplitWs(Strip(text), 2)

\* the split of every command line, computed once
RECURSIVE PartsTableOf(_)
PartsTableOf(texts) ==
    IF texts = {} THEN <<>>
    ELSE LET text == CHOOSE text \in texts : TRUE
         IN  (text :> SplitCommand(text)) @@ PartsTableOf(texts \ {text})

PartsTable == PartsTableOf(CommandTexts)
PartsOf(text) == PartsTable[text]

\* action = parts[0].lower() if parts else ""
RECURSIVE ActionTableOf(_)
ActionTableOf(texts) ==
    IF texts = {} THEN <<>>
    ELSE LET text == CHOOSE text \in texts : TRUE
         IN  (text :> IF PartsTable[text] = <<>> THEN "" ELSE Lower(PartsTable[text][1]))
             @@ ActionTableOf(texts \ {text})

ActionTable == ActionTableOf(CommandTexts)
ActionOf(text) == ActionTable[text]

\* task_input = " ".join(parts[1:]) of the create lines that have one
TaskInputs == {JoinSpace(Tail(PartsTable[text])) :
                  text \in {c \in CommandTexts : ActionTable[c] = "create"
                                                 /\ Len(PartsTable[c]) >= 2}}

\* parse_natural_language of every task input at every clock value, computed once
RECURSIVE ParseTableOf(_)
ParseTableOf(inputs) ==
    IF inputs = {} THEN <<>>
    ELSE LET i == CHOOSE i \in inputs : TRUE
         IN  (i :> parse_natural_language(i[1], i[2])) @@ ParseTableOf(inputs \ {i})

ParseTable == ParseTableOf(TaskInputs \X (0..MaxNow))

\* new_status = parts[2].lower(), the status text lower-cased, of the update
\* lines that have one
RECURSIVE NewStatusTableOf(_)
NewStatusTableOf(texts) ==
    IF texts = {} THEN <<>>
    ELSE LET text == CHOOSE text \in texts : TRUE
         IN  (text :> Lower(PartsTable[text][3])) @@ NewStatusTableOf(texts \ {text})

NewStatusTable == NewStatusTableOf({c \in CommandTexts : Len(PartsTable[c]) >= 3})

(***************************************************************************)
(* The store and the formatters.                                           *)
(***************************************************************************)
\* a task built without the deadline the extractor found
Task_dropsDeadline(task_id, task_data, created_at) ==
    [id |-> task_id, title |-> task_data.title, description |-> task_data.description,
     deadline |-> None, status |-> "pending", created_at |-> created_at,
     subtasks |-> <<>>]

\* Task(id=..., title=..., description=..., deadline=..., created_at=...)
Task(task_id, task_data, created_at) ==
    [id |-> task_id, title |-> task_data.title, description |-> task_data.description,
     deadline |-> task_data.deadline, status |-> "pending", created_at |-> created_at,
     subtasks |-> <<>>]

\* generate_task_id: the values uuid4 can give; nothing compares them with
\* the ids in use
generate_task_id == TaskIds

\* tasks_db[task_id] = task
PutTask(db, task) ==
    [k \in DOMAIN db \cup {task.id} |-> IF k = task.id THEN task ELSE db[k]]

\* an append that stores a new list holding the one id
AppendIndex_overwrites(ut, user_id, task_id) ==
    [u \in DOMAIN ut \cup {user_id} |-> IF u = user_id THEN <<task_id>> ELSE ut[u]]

\* user_tasks[user_id].append(task_id), after creating the list when missing
AppendIndex(ut, user_id, task_id) ==
    [u \in DOMAIN ut \cup {user_id} |->
        IF u = user_id
        THEN (IF user_id \in DOMAIN ut THEN ut[user_id] ELSE <<>>) \o <<task_id>>
        ELSE ut[u]]

\* list.remove(x): the first occurrence of x
RECURSIVE RemoveFirst(_, _)
RemoveFirst(l, x) ==
    IF l = <<>> THEN <<>>
    ELSE IF Head(l) = x THEN Tail(l)
    ELSE <<Head(l)>> \o RemoveFirst(Tail(l), x)

InList(l, x) == \E i \in 1..Len(l) : l[i] = x

TwoDigits(n) == IF n < 10 THEN "0" \o ToStr(n) ELSE ToStr(n)

\* strftime('%Y-%m-%d %H:%M'): the day, the hour and the minute; seconds are dropped
Strftime(t) ==
    LET minute == t \div TicksPerMinute
    IN  "D" \o ToStr(minute \div 1440) \o " " \o TwoDigits((minute % 1440) \div 60)
        \o ":" \o TwoDigits(minute % 60)

\* strftime('%m/%d'): the day of the year
StrftimeDay(t) == "D" \o ToStr((t \div TicksPerDay) % 365)

RECURSIVE ReplaceUnderscore(_)
ReplaceUnderscore(s) ==
    IF s = "" THEN ""
    ELSE (IF Char(s, 1) = "_" THEN " " ELSE Char(s, 1)) \o ReplaceUnderscore(Tail(s))

\* task.status.replace('_', ' ').title() of every status a command can name
RECURSIVE StatusLabelTableOf(_)
StatusLabelTableOf(statuses) ==
    IF statuses = {} THEN <<>>
    ELSE LET s == CHOOSE s \in statuses : TRUE
         IN  (s :> Title(ReplaceUnderscore(s))) @@ StatusLabelTableOf(statuses \ {s})

StatusLabelTable ==
    StatusLabelTableOf(Statuses \cup {NewStatusTable[c] : c \in DOMAIN NewStatusTable})

format_task_response(task) ==
    ":white_check_mark: **Task Created:** " \o task.title \o "\n"
    \o ":memo: **ID:** " \o task.id \o "\n"
    \o (IF task.description # None /\ task.description[1] # ""
        THEN ":clipboard: **Description:** " \o task.description[1] \o "\n" ELSE "")
    \o (IF task.deadline # None
        THEN ":alarm_clock: **Deadline:** " \o Strftime(task.deadline[1]) \o "\n" ELSE "")
    \o ":bar_chart: **Status:** " \o StatusLabelTable[task.status] \o "\n"
    \o ":clock1: **Created:** " \o Strftime(task.created_at)

\* a listing that marks every task as pending
StatusEmoji_pending(status) == ":hourglass_flowing_sand:"

\* status_emoji.get(task.status, ":question:")
StatusEmoji(status) ==
    CASE status = "pending" -> ":hourglass_flowing_sand:"
      [] status = "in_progress" -> ":arrows_counterclockwise:"
      [] status = "completed" -> ":white_check_mark:"
      [] OTHER -> ":question:"

\* one line of the listing
TaskLine(task) ==
    StatusEmoji(task.status) \o " **" \o task.id \o "** - " \o task.title
    \o (IF task.deadline # None THEN " (Due: " \o StrftimeDay(task.deadline[1]) \o ")" ELSE "")
    \o "\n"

\* a listing loop that lacks the test "task_id in tasks_db" and writes a line
\* for an id whose task is gone
RECURSIVE TaskLines_keepsDeleted(_, _)
TaskLines_keepsDeleted(ids, db) ==
    IF ids = <<>> THEN ""
    ELSE (IF Head(ids) \in DOMAIN db THEN TaskLine(db[Head(ids)])
          ELSE ":question: **" \o Head(ids) \o "** - \n")
         \o TaskLines_keepsDeleted(Tail(ids), db)

\* the loop of list_user_tasks over the ids of the index
RECURSIVE TaskLines(_, _)
TaskLines(ids, db) ==
    IF ids = <<>> THEN ""
    ELSE (IF Head(ids) \in DOMAIN db THEN TaskLine(db[Head(ids)]) ELSE "")
         \o TaskLines(Tail(ids), db)

EmptyListText ==
    ":mailbox_with_no_mail: You don't have any tasks yet! Use '/task create <task description>' to create one."

ListFooter ==
    "\n:bulb: Use '/task show <task_id>' to see details or '/task update <task_id> <status>' to update status."

list_user_tasks(user_id, ut, db) ==
    IF user_id \notin DOMAIN ut \/ ut[user_id] = <<>> THEN EmptyListText
    ELSE ":clipboard: **Your Tasks (" \o ToStr(Len(ut[user_id])) \o "):**\n\n"
         \o TaskLines(ut[user_id], db) \o ListFooter

(***************************************************************************)
(* create_task and the branches of handle_slack_command.  A branch gives  *)
(* the reply, the return statement taken and the store after it.          *)
(***************************************************************************)
Result(response_type, text, kind, task_id, db, ut) ==
    [response |-> [response_type |-> response_type, text |-> text],
     outcome |-> [kind |-> kind, task_id |-> task_id],
     tasks_db |-> db, user_tasks |-> ut]

create_task(user_id, task_data, task_id, t, db, ut) ==
    LET task == Task(task_id, task_data, t)
    IN  [task |-> task, tasks_db |-> PutTask(db, task),
         user_tasks |-> AppendIndex(ut, user_id, task_id)]

HelpText ==
    ":robot_face: **Slack Productivity Bot Help**\n\n**Commands:**\n"
    \o "- '/task create <description>' - Create a new task\n"
    \o "- '/task list' - List all your tasks\n"
    \o "- '/task show <task_id>' - Show task details\n"
    \o "- '/task update <task_id> <status>' - Update task status (pending/in_progress/completed)\n"
    \o "- '/task delete <task_id>' - Delete a task\n\n**Examples:**\n"
    \o "- '/task create Review project proposal by tomorrow'\n"
    \o "- '/task create Set up meeting with client next week'\n"
    \o "- '/task update abc123 completed'"

CreateUsageText ==
    ":x: Please provide a task description. Example: '/task create Review documents by Friday'"
ShowUsageText == ":x: Please provide a task ID. Example: '/task show abc123'"
UpdateUsageText ==
    ":x: Please provide task ID and status. Example: '/task update abc123 completed'"
DeleteUsageText == ":x: Please provide a task ID. Example: '/task delete abc123'"
NotFoundText(task_id) == ":x: Task '" \o task_id \o "' not found."
ValidationText == ":x: Status must be one of: pending, in_progress, completed"
UnknownText(action) ==
    ":x: Unknown action '" \o action \o "'. Use '/task' without parameters to see help."
DeletedText(task) == ":wastebasket: Task '" \o task.title \o "' has been deleted."

\* if not text: return the help
help_branch(db, ut) == Result("ephemeral", HelpText, "help", "", db, ut)

\* action == "create"
create_branch(user_id, text, new_id, t, db, ut) ==
    LET parts == PartsOf(text)
    IN  IF Len(parts) < 2
        THEN Result("ephemeral", CreateUsageText, "usage", "", db, ut)
        ELSE LET parsed_data == ParseTable[<<JoinSpace(Tail(parts)), t>>]
                 c == create_task(user_id, parsed_data, new_id, t, db, ut)
             IN  Result("in_channel", format_task_response(c.task), "created", new_id,
                        c.tasks_db, c.user_tasks)

\* a list that drops from every index the ids whose task is gone
list_branch_prunes(user_id, db, ut) ==
    Result("ephemeral", list_user_tasks(user_id, ut, db), "list", "", db,
           [u \in DOMAIN ut |-> SelectSeq(ut[u], LAMBDA x : x \in DOMAIN db)])

\* action == "list"
list_branch(user_id, db, ut) ==
    Result("ephemeral", list_user_tasks(user_id, ut, db), "list", "", db, ut)

\* a show that answers in the channel, as create and update do
ShowDetail_public(task, db, ut) ==
    Result("in_channel", format_task_response(task), "detail", task.id, db, ut)

\* the return of the show branch for a stored task
ShowDetail(task, db, ut) ==
    Result("ephemeral", format_task_response(task), "detail", task.id, db, ut)

\* action == "show"
show_branch(text, db, ut) ==
    LET parts == PartsOf(text)
    IN  IF Len(parts) < 2
        THEN Result("ephemeral", ShowUsageText, "usage", "", db, ut)
        ELSE IF parts[2] \notin DOMAIN db
        THEN Result("ephemeral", NotFoundText(parts[2]), "not_found", parts[2], db, ut)
        ELSE ShowDetail(db[parts[2]], db, ut)

\* a validation list with one status too many
ValidStatuses_extra == {"pending", "in_progress", "completed", "done"}

\* the list the new status is looked up in
ValidStatuses == {"pending", "in_progress", "completed"}

\* an update that stores a rebuilt task, without its description
SetStatus_rebuilds(db, task_id, new_status) ==
    [db EXCEPT ![task_id].status = new_status, ![task_id].description = None]

\* tasks_db[task_id].status = new_status
SetStatus(db, task_id, new_status) == [db EXCEPT ![task_id].status = new_status]

\* the keys of status_messages
StatusMessageKeys == {"pending", "in_progress", "completed"}

\* status_messages[new_status]
StatusMessage(new_status) ==
    CASE new_status = "pending" -> ":hourglass_flowing_sand: Task moved to pending"
      [] new_status = "in_progress" -> ":arrows_counterclockwise: Task is now in progress"
      [] new_status = "completed" -> ":tada: Task completed!"

\* except Exception as e: the reply of the handler when a branch raises; the
\* store stays as the branch left it
FaultText(e) == ":x: An error occurred: " \o e

\* an update that writes the status before it validates it
update_branch_writes_first(text, db, ut) ==
    LET parts == PartsOf(text)
    IN  IF Len(parts) < 3
        THEN Result("ephemeral", UpdateUsageText, "usage", "", db, ut)
        ELSE LET task_id    == parts[2]
                 new_status == NewStatusTable[text]
             IN  IF task_id \notin DOMAIN db
                 THEN Result("ephemeral", NotFoundText(task_id), "not_found", task_id, db, ut)
                 ELSE LET db2 == SetStatus(db, task_id, new_status)
                      IN  IF new_status \notin ValidStatuses
                          THEN Result("ephemeral", ValidationText, "validation", task_id,
                                      db2, ut)
                          ELSE Result("in_channel",
                                      StatusMessage(new_status) \o "\n"
                                      \o format_task_response(db2[task_id]),
                                      "updated", task_id, db2, ut)

\* action == "update"
update_branch(text, db, ut) ==
    LET parts == PartsOf(text)
    IN  IF Len(parts) < 3
        THEN Result("ephemeral", UpdateUsageText, "usage", "", db, ut)
        ELSE LET task_id    == parts[2]
                 new_status == NewStatusTable[text]
             IN  IF task_id \notin DOMAIN db
                 THEN Result("ephemeral", NotFoundText(task_id), "not_found", task_id, db, ut)
                 ELSE IF new_status \notin ValidStatuses
                 THEN Result("ephemeral", ValidationText, "validation", task_id, db, ut)
                 ELSE LET db2 == SetStatus(db, task_id, new_status)
                      IN  IF new_status \notin StatusMessageKeys
                          \* status_messages[new_status] raises KeyError
                          THEN Result("ephemeral", FaultText("'" \o new_status \o "'"),
                                      "fault", task_id, db2, ut)
                          ELSE Result("in_channel",
                                      StatusMessage(new_status) \o "\n"
                                      \o format_task_response(db2[task_id]),
                                      "updated", task_id, db2, ut)

\* a removal of the last entry of the caller's index, pop() for remove(task_id)
RemoveFromIndex_last(ut, user_id, task_id) ==
    IF user_id \in DOMAIN ut /\ InList(ut[user_id], task_id)
    THEN [ut EXCEPT ![user_id] = SubSeq(@, 1, Len(@) - 1)]
    ELSE ut

\* if user_id in user_tasks and task_id in user_tasks[user_id]: remove it
RemoveFromIndex(ut, user_id, task_id) ==
    IF user_id \in DOMAIN ut /\ InList(ut[user_id], task_id)
    THEN [ut EXCEPT ![user_id] = RemoveFirst(@, task_id)]
    ELSE ut

\* tasks_db.pop(task_id)
PopTask(db, task_id) == [k \in DOMAIN db \ {task_id} |-> db[k]]

\* a delete that removes the id from the caller's index before it looks the
\* task up
delete_branch_index_first(user_id, text, db, ut) ==
    LET parts == PartsOf(text)
    IN  IF Len(parts) < 2
        THEN Result("ephemeral", DeleteUsageText, "usage", "", db, ut)
        ELSE LET task_id == parts[2]
                 ut2     == RemoveFromIndex(ut, user_id, task_id)
             IN  IF task_id \notin DOMAIN db
                 THEN Result("ephemeral", NotFoundText(task_id), "not_found", task_id, db, ut2)
                 ELSE Result("ephemeral", DeletedText(db[task_id]), "deleted", task_id,
                             PopTask(db, task_id), ut2)

\* action == "delete"
delete_branch(user_id, text, db, ut) ==
    LET parts == PartsOf(text)
    IN  IF Len(parts) < 2
        THEN Result("ephemeral", DeleteUsageText, "usage", "", db, ut)
        ELSE LET task_id == parts[2]
             IN  IF task_id \notin DOMAIN db
                 THEN Result("ephemeral", NotFoundText(task_id), "not_found", task_id, db, ut)
                 ELSE Result("ephemeral", DeletedText(db[task_id]), "deleted", task_id,
                             PopTask(db, task_id), RemoveFromIndex(ut, user_id, task_id))

\* else: unknown action
unknown_branch(action, db, ut) ==
    Result("ephemeral", UnknownText(action), "unknown", "", db, ut)

KnownActions == {"create", "list", "show", "update", "delete"}

(***************************************************************************)
(* The specification: one action per branch of handle_slack_command, for  *)
(* any user and any command line, the commands handled one after another. *)
(* The history variables record either the latest command and its reply   *)
(* (rec = "reply", specification Spec) or a remembered read and the       *)
(* replies of its repetitions (rec = "memo", specification SpecRead).     *)
(***************************************************************************)
NoRequest == [user_id |-> "", text |-> ""]
NoResponse == [response_type |-> "", text |-> ""]
NoOutcome == [kind |-> "", task_id |-> ""]

Init ==
    /\ tasks_db = <<>>
    /\ user_tasks = <<>>
    /\ now = 0
    /\ request = NoRequest
    /\ response = NoResponse
    /\ outcome = NoOutcome
    /\ created_ids = {}
    /\ deleted_ids = {}
    /\ memo = None
    /\ owner = <<>>
    /\ handlers = <<>>
    /\ input = None
    /\ extracted = None

\* datetime.now() of a create (the one command that reads the clock): time has
\* passed since the create before, or not
ClockNext == {t \in {now, now + 1} : t <= MaxNow}

Mutations == {"created", "updated", "deleted"}

\* a show with an id, or a list
IsRead(text) ==
    \/ ActionOf(text) = "list"
    \/ ActionOf(text) = "show" /\ Len(PartsOf(text)) >= 2

\* what two reads must share to be the same read: the id shown, or the user listing
ReadKey(user_id, text) ==
    IF ActionOf(text) = "list" THEN <<"list", user_id>> ELSE <<"show", PartsOf(text)[2]>>

\* the memo after the command (user_id, text) with result r
Remember(user_id, text, r, keep) ==
    IF r.outcome.kind \in Mutations THEN None
    ELSE IF ~IsRead(text) THEN memo
    ELSE IF memo = None
    THEN IF keep THEN None
         ELSE Some([key |-> ReadKey(user_id, text), tasks_db |-> tasks_db,
                    user_tasks |-> user_tasks, first |-> r.response, again |-> r.response,
                    repeated |-> FALSE])
    ELSE IF memo[1].key = ReadKey(user_id, text)
    THEN Some([memo[1] EXCEPT !.again = r.response, !.repeated = TRUE])
    ELSE memo

\* the command (user_id, text), handled at time t with result r
Handle(user_id, text, t, r, rec) ==
    /\ now' = t
    /\ tasks_db' = r.tasks_db
    /\ user_tasks' = r.user_tasks
    /\ created_ids' = IF r.outcome.kind = "created"
                      THEN created_ids \cup {r.outcome.task_id} ELSE created_ids
    /\ deleted_ids' = CASE r.outcome.kind = "created" -> deleted_ids \ {r.outcome.task_id}
                        [] r.outcome.kind = "deleted" -> deleted_ids \cup {r.outcome.task_id}
                        [] OTHER -> deleted_ids
    /\ CASE rec = "reply" ->
              /\ request' = [user_id |-> user_id, text |-> text]
              /\ response' = r.response
              /\ outcome' = r.outcome
              /\ UNCHANGED <<memo, owner>>
         [] rec = "memo" ->
              /\ UNCHANGED <<request, response, outcome, owner>>
              /\ \E keep \in BOOLEAN : memo' = Remember(user_id, text, r, keep)
         [] rec = "owner" ->
              /\ UNCHANGED <<request, response, outcome, memo>>
              /\ owner' = IF r.outcome.kind = "created"
                          THEN (r.outcome.task_id :> user_id) @@ owner ELSE owner
    /\ UNCHANGED <<handlers, input, extracted>>

\* the places of the indexes that hold an id
IndexEntries ==
    UNION {{<<u, i>> : i \in 1..Len(user_tasks[u])} : u \in DOMAIN user_tasks}

Help(rec) ==
    \E user_id \in Users, text \in CommandTexts, t \in {now} :
        /\ PartsOf(text) = <<>>
        /\ \E r \in {help_branch(tasks_db, user_tasks)} : Handle(user_id, text, t, r, rec)

Create(rec) ==
    \E user_id \in Users, text \in CommandTexts, t \in ClockNext, new_id \in generate_task_id :
        /\ ActionOf(text) = "create"
        \* without an argument neither the clock nor the id generator is read
        /\ Len(PartsOf(text)) < 2 => t = now /\ new_id = CHOOSE i \in generate_task_id : TRUE
        /\ Len(PartsOf(text)) >= 2 => Cardinality(IndexEntries) < MaxIndexed
        /\ \E r \in {create_branch(user_id, text, new_id, t, tasks_db, user_tasks)} :
              Handle(user_id, text, t, r, rec)

List(rec) ==
    \E user_id \in Users, text \in CommandTexts, t \in {now} :
        /\ ActionOf(text) = "list"
        /\ \E r \in {list_branch(user_id, tasks_db, user_tasks)} :
              Handle(user_id, text, t, r, rec)

Show(rec) ==
    \E user_id \in Users, text \in CommandTexts, t \in {now} :
        /\ ActionOf(text) = "show"
        /\ \E r \in {show_branch(text, tasks_db, user_tasks)} :
              Handle(user_id, text, t, r, rec)

Update(rec) ==
    \E user_id \in Users, text \in CommandTexts, t \in {now} :
        /\ ActionOf(text) = "update"
        /\ \E r \in {update_branch(text, tasks_db, user_tasks)} :
              Handle(user_id, text, t, r, rec)

Delete(rec) ==
    \E user_id \in Users, text \in CommandTexts, t \in {now} :
        /\ ActionOf(text) = "delete"
        /\ \E r \in {delete_branch(user_id, text, tasks_db, user_tasks)} :
              Handle(user_id, text, t, r, rec)

Unknown(rec) ==
    \E user_id \in Users, text \in CommandTexts, t \in {now} :
        /\ PartsOf(text) # <<>>
        /\ ActionOf(text) \notin KnownActions
        /\ \E r \in {unknown_branch(ActionOf(text), tasks_db, user_tasks)} :
              Handle(user_id, text, t, r, rec)

Next ==
    \/ Help("reply") \/ Create("reply") \/ List("reply") \/ Show("reply")
    \/ Update("reply") \/ Delete("reply") \/ Unknown("reply")

Spec == Init /\ [][Next]_vars

NextRead ==
    \/ Help("memo") \/ Create("memo") \/ List("memo") \/ Show("memo")
    \/ Update("memo") \/ Delete("memo") \/ Unknown("memo")

SpecRead == Init /\ [][NextRead]_vars

(***************************************************************************)
(* The commands when uuid4 never repeats an id: a create is given an id   *)
(* that no create was given before.  The history records who created      *)
(* each id (rec = "owner").                                               *)
(***************************************************************************)
CreateFresh(rec) ==
    \E user_id \in Users, text \in CommandTexts, t \in ClockNext, new_id \in generate_task_id :
        /\ ActionOf(text) = "create"
        /\ Len(PartsOf(text)) < 2 => t = now /\ new_id = CHOOSE i \in generate_task_id : TRUE
        /\ Len(PartsOf(text)) >= 2 => new_id \notin created_ids
        /\ \E r \in {create_branch(user_id, text, new_id, t, tasks_db, user_tasks)} :
              Handle(user_id, text, t, r, rec)

NextFresh ==
    \/ Help("owner") \/ CreateFresh("owner") \/ List("owner") \/ Show("owner")
    \/ Update("owner") \/ Delete("owner") \/ Unknown("owner")

SpecFresh == Init /\ [][NextFresh]_vars

(***************************************************************************)
(* parse_natural_language on its own: the argument is any of the texts    *)
(* below, read at any clock value, and the one action applies the         *)
(* function to it.                                                        *)
(***************************************************************************)
ExtractTexts ==
    {"Review proposal by tomorrow", "Submit report in 3 days",
     "Plan trip\nBook flights and hotel", "Call client. Discuss contract terms",
     "Buy milk", "Pay rent TOMORROW", "tomorrow", "Ship in 20 days",
     "call in\n2  days", "in 1 day late", "a.b.c", "one\ntwo. three\nfour",
     " \nsecond line", ".hidden", "Call client.", "  padded  ",
     "tomorrow and tomorrow", "3/4 or 3/4", "Friday call friday",
     "x in 2 days in 2 days", "Report by friday", "3/4 today", "1/2/2026",
     "Meet 1/2", "99/99 monday", "due soon", "standup monday",
     "in 5 days on monday", "by x tomorrow", "demo next week",
     "audit Next Month. bring files", "deadline friday", "Today\nlunch", "",
     "by tomorrow", "fix bug until 12/25 then rest"}

InitExtract ==
    /\ tasks_db = <<>>
    /\ user_tasks = <<>>
    /\ now = 0
    /\ request = NoRequest
    /\ response = NoResponse
    /\ outcome = NoOutcome
    /\ created_ids = {}
    /\ deleted_ids = {}
    /\ memo = None
    /\ owner = <<>>
    /\ handlers = <<>>
    /\ input \in {Some([text |-> text, at |-> at]) : text \in ExtractTexts, at \in 0..MaxNow}
    /\ extracted = None

\* parsed_data = parse_natural_language(task_text)
Extract ==
    /\ input # None
    /\ extracted = None
    /\ extracted' = Some(parse_natural_language(input[1].text, input[1].at))
    /\ UNCHANGED <<tasks_db, user_tasks, now, request, response, outcome,
                   created_ids, deleted_ids, memo, owner, handlers, input>>

NextExtract == Extract

SpecExtract == InitExtract /\ [][NextExtract]_vars

(***************************************************************************)
(* handle_slack_command called concurrently.  The handler is a coroutine  *)
(* of one event loop: it gives way at "await request.form()", its only    *)
(* await, which stands before any use of tasks_db and user_tasks, and     *)
(* from there to its return nothing else runs.  Call starts a call, up to *)
(* that await; Resume runs it from the await to the return.               *)
(***************************************************************************)
\* the handler from "if not text" to its return: the branch the text selects
run_command(user_id, text, new_id, t, db, ut) ==
    IF PartsOf(text) = <<>> THEN help_branch(db, ut)
    ELSE CASE ActionOf(text) = "create" -> create_branch(user_id, text, new_id, t, db, ut)
           [] ActionOf(text) = "list" -> list_branch(user_id, db, ut)
           [] ActionOf(text) = "show" -> show_branch(text, db, ut)
           [] ActionOf(text) = "update" -> update_branch(text, db, ut)
           [] ActionOf(text) = "delete" -> delete_branch(user_id, text, db, ut)
           [] OTHER -> unknown_branch(ActionOf(text), db, ut)

\* the command lines of the concurrent calls: creates and deletes
ConcTexts == {c \in CommandTexts : ActionOf(c) \in {"create", "delete"}}

Handlers == 1..NumHandlers

IdleHandler == [pc |-> "idle", user_id |-> "", text |-> "", kind |-> "", task_id |-> ""]

InitConc ==
    /\ tasks_db = <<>>
    /\ user_tasks = <<>>
    /\ now = 0
    /\ request = NoRequest
    /\ response = NoResponse
    /\ outcome = NoOutcome
    /\ created_ids = {}
    /\ deleted_ids = {}
    /\ memo = None
    /\ owner = <<>>
    /\ handlers = [h \in Handlers |-> IdleHandler]
    /\ input = None
    /\ extracted = None

\* a call arrives and waits for its form data; the calls take the handlers
\* in turn, the lowest free one first
Call(h) ==
    /\ handlers[h].pc = "idle"
    /\ \A g \in 1..(h - 1) : handlers[g].pc # "idle"
    /\ \E user_id \in Users, text \in ConcTexts :
          handlers' = [handlers EXCEPT ![h] = [pc |-> "form", user_id |-> user_id,
                                               text |-> text, kind |-> "", task_id |-> ""]]
    /\ UNCHANGED <<tasks_db, user_tasks, now, request, response, outcome,
                   created_ids, deleted_ids, memo, owner, input, extracted>>

\* the form data is there: the call runs to its return
Resume(h) ==
    /\ handlers[h].pc = "form"
    /\ \E t \in ClockNext, new_id \in generate_task_id :
          /\ (ActionOf(handlers[h].text) # "create" \/ Len(PartsOf(handlers[h].text)) < 2)
                => t = now /\ new_id = CHOOSE i \in generate_task_id : TRUE
          /\ \E r \in {run_command(handlers[h].user_id, handlers[h].text, new_id, t,
                                    tasks_db, user_tasks)} :
                /\ tasks_db' = r.tasks_db
                /\ user_tasks' = r.user_tasks
                /\ now' = t
                /\ handlers' = [handlers EXCEPT ![h].pc = "done",
                                                ![h].kind = r.outcome.kind,
                                                ![h].task_id = r.outcome.task_id]
    /\ UNCHANGED <<request, response, outcome, created_ids, deleted_ids, memo, owner,
                   input, extracted>>

NextConc == \E h \in Handlers : Call(h) \/ Resume(h)

SpecConc == InitConc /\ [][NextConc]_vars

(***************************************************************************)
(* The claims.                                                             *)
(***************************************************************************)
RequestParts == PartsOf(request.text)
RequestAction == ActionOf(request.text)

\* the text that starts the listing line of task id t
LineMark(t) == "**" \o t \o "** - "

\* C1: every task id held in any user's index is a key of the task store,
\* after any commands of any users, also after a delete issued by a user other
\* than the creator.
C1_IndexIdsInStore ==
    \A u \in DOMAIN user_tasks :
        \A i \in 1..Len(user_tasks[u]) : user_tasks[u][i] \in DOMAIN tasks_db

\* C2: once a delete of t has succeeded, and until a create returns t again, t is
\* not in the store, a show of t replies with the not-found error, and a list
\* by any user (the creator too) has no line for t.
C2_DeletedStaysGone ==
    \A t \in deleted_ids :
        /\ t \notin DOMAIN tasks_db
        /\ (RequestAction = "show" /\ Len(RequestParts) >= 2 /\ RequestParts[2] = t)
              => response = [response_type |-> "ephemeral", text |-> NotFoundText(t)]
        /\ RequestAction = "list" => ~Contains(response.text, LineMark(t))

\* a user lists tasks while the index of that user still holds a deleted id
C2_Witness ==
    \E t \in deleted_ids :
        /\ RequestAction = "list"
        /\ request.user_id \in DOMAIN user_tasks
        /\ InList(user_tasks[request.user_id], t)
        /\ \E k \in DOMAIN tasks_db : Contains(response.text, LineMark(k))

\* C3: every create assigns an id that no earlier create was given, deleted
\* tasks included; so a create never overwrites a store entry and no id
\* occurs twice in the indexes.
C3_FreshIds ==
    [][outcome'.kind = "created" =>
          /\ outcome'.task_id \notin created_ids
          /\ outcome'.task_id \notin DOMAIN tasks_db
          /\ \A u \in DOMAIN user_tasks : ~InList(user_tasks[u], outcome'.task_id)]_vars

\* C4: a create with at least one argument stores a task with a non-empty
\* title, whatever the argument text; every stored task has a non-empty title.
C4_TitlesNonEmpty ==
    /\ \A t \in DOMAIN tasks_db : tasks_db[t].title # ""
    /\ (RequestAction = "create" /\ Len(RequestParts) >= 2)
          => /\ outcome.kind = "created"
             /\ outcome.task_id \in DOMAIN tasks_db
             /\ tasks_db[outcome.task_id].title # ""

\* C5: every stored task has one of the statuses pending, in_progress,
\* completed (lowercase), and a task just created has status pending.
C5_StatusEnumerated ==
    /\ \A t \in DOMAIN tasks_db :
          tasks_db[t].status \in {"pending", "in_progress", "completed"}
    /\ outcome.kind = "created" => tasks_db[outcome.task_id].status = "pending"

\* a task was just created while another one is in progress
C5_Witness ==
    /\ outcome.kind = "created"
    /\ \E t \in DOMAIN tasks_db : tasks_db[t].status = "in_progress"

\* C6: a successful update changes only the status of the addressed task: its
\* other fields, every other task, the set of stored ids and every index stay;
\* and no command changes the created_at of a stored task (an entry gets another
\* created_at only when a create stores a new task under that id).
C6_UpdateFrame ==
    [][/\ outcome'.kind = "updated" =>
             LET t == outcome'.task_id
             IN  /\ t \in DOMAIN tasks_db
                 /\ DOMAIN tasks_db' = DOMAIN tasks_db
                 /\ user_tasks' = user_tasks
                 /\ \A k \in DOMAIN tasks_db \ {t} : tasks_db'[k] = tasks_db[k]
                 /\ tasks_db'[t] = [tasks_db[t] EXCEPT !.status = tasks_db'[t].status]
       /\ \A k \in DOMAIN tasks_db \cap DOMAIN tasks_db' :
             tasks_db'[k].created_at # tasks_db[k].created_at
                => outcome'.kind = "created" /\ outcome'.task_id = k]_vars

\* an older task with a description was just completed while another task exists
C6_Witness ==
    /\ outcome.kind = "updated"
    /\ Cardinality(DOMAIN tasks_db) = 2
    /\ tasks_db[outcome.task_id].status = "completed"
    /\ tasks_db[outcome.task_id].description # None
    /\ tasks_db[outcome.task_id].created_at < now

\* C7: update <id> <status> for a stored id, with a status text that, lower-cased,
\* is none of pending, in_progress, completed, replies with the validation
\* error, privately, and leaves the task's status and the rest of the store.
C7_InvalidStatusRejected ==
    [][LET parts == PartsOf(request'.text)
       IN  (/\ ActionOf(request'.text) = "update"
            /\ Len(parts) >= 3
            /\ parts[2] \in DOMAIN tasks_db
            /\ NewStatusTable[request'.text] \notin {"pending", "in_progress", "completed"})
              => /\ response' = [response_type |-> "ephemeral", text |-> ValidationText]
                 /\ tasks_db' = tasks_db
                 /\ user_tasks' = user_tasks]_vars

\* an invalid status was refused for a task that is completed
C7_Witness ==
    /\ outcome.kind = "validation"
    /\ RequestAction = "update"
    /\ tasks_db[outcome.task_id].status = "completed"

\* the command text, in the store db, ends with the help, a usage error, a
\* not-found error or the unknown-action error
EndsInError(text, db) ==
    LET parts  == PartsOf(text)
        action == ActionOf(text)
    IN  \/ parts = <<>>
        \/ action \in {"create", "show", "delete"} /\ Len(parts) < 2
        \/ action = "update" /\ Len(parts) < 3
        \/ action \in {"show", "delete"} /\ Len(parts) >= 2 /\ parts[2] \notin DOMAIN db
        \/ action = "update" /\ Len(parts) >= 3 /\ parts[2] \notin DOMAIN db
        \/ parts # <<>> /\ action \notin {"create", "list", "show", "update", "delete"}

\* C8: a command that ends with the help text, a usage error, a not-found error
\* or the unknown-action error leaves the store and every index as they were.
C8_ErrorsChangeNothing ==
    [][(\/ EndsInError(request'.text, tasks_db)
        \/ outcome'.kind \in {"help", "usage", "not_found", "unknown"})
          => /\ outcome'.kind \in {"help", "usage", "not_found", "unknown"}
             /\ tasks_db' = tasks_db
             /\ user_tasks' = user_tasks]_vars

\* a user deletes an id that is still in that user's index but not in the store
C8_Witness ==
    /\ outcome.kind = "not_found"
    /\ RequestAction = "delete"
    /\ request.user_id \in DOMAIN user_tasks
    /\ InList(user_tasks[request.user_id], outcome.task_id)

\* C9: the reply is public (in_channel) exactly when the command is a
\* successful create or a successful update; every other outcome is private
\* (ephemeral).
C9_Visibility ==
    outcome.kind # "" =>
        /\ response.response_type \in {"in_channel", "ephemeral"}
        /\ response.response_type = "in_channel" <=> outcome.kind \in {"created", "updated"}
        /\ outcome.kind = "created" <=> (RequestAction = "create" /\ Len(RequestParts) >= 2)
        /\ outcome.kind = "updated" <=>
              /\ RequestAction = "update"
              /\ Len(RequestParts) >= 3
              /\ RequestParts[2] \in DOMAIN tasks_db
              /\ NewStatusTable[request.text] \in {"pending", "in_progress", "completed"}

\* an update succeeded and its reply is public
C9_Witness ==
    /\ outcome.kind = "updated"
    /\ response.response_type = "in_channel"
    /\ tasks_db[outcome.task_id].status = "in_progress"

\* C10: show and list change neither the store nor any index, and a show of the
\* same id (a list by the same user) repeated with no create, update or delete
\* in between gets the same reply text and visibility.
C10_ReadsRepeat ==
    memo # None =>
        /\ memo[1].tasks_db = tasks_db
        /\ memo[1].user_tasks = user_tasks
        /\ memo[1].again = memo[1].first

\* a user whose index holds a stored task has listed twice
C10_Witness ==
    /\ memo # None
    /\ memo[1].repeated
    /\ memo[1].key[1] = "list"
    /\ memo[1].key[2] \in DOMAIN user_tasks
    /\ \E i \in 1..Len(user_tasks[memo[1].key[2]]) :
          user_tasks[memo[1].key[2]][i] \in DOMAIN tasks_db

\* the detail text of a pending task with the given title, description and
\* deadline: an absent or empty description and an absent deadline have no line
C11_Detail(task_id, task_data, created_at) ==
    ":white_check_mark: **Task Created:** " \o task_data.title \o "\n"
    \o ":memo: **ID:** " \o task_id \o "\n"
    \o (IF task_data.description \notin {None, Some("")}
        THEN ":clipboard: **Description:** " \o task_data.description[1] \o "\n" ELSE "")
    \o (IF task_data.deadline # None
        THEN ":alarm_clock: **Deadline:** " \o Strftime(task_data.deadline[1]) \o "\n" ELSE "")
    \o ":bar_chart: **Status:** Pending\n"
    \o ":clock1: **Created:** " \o Strftime(created_at)

\* C11: when a create has just succeeded with id t, a show of t that comes
\* next, by any user, succeeds and its reply is the detail of a pending task
\* with exactly the title, description and deadline the extractor returned for
\* the text of the create.
C11_ShowAfterCreate ==
    [][(/\ outcome.kind = "created"
        /\ ActionOf(request'.text) = "show"
        /\ Len(PartsOf(request'.text)) >= 2
        /\ PartsOf(request'.text)[2] = outcome.task_id)
       => /\ outcome'.kind = "detail"
          /\ response' =
                [response_type |-> "ephemeral",
                 text |-> C11_Detail(outcome.task_id,
                                     ParseTable[<<JoinSpace(Tail(RequestParts)), now>>],
                                     now)]]_vars

\* a task created with a deadline is shown to a user other than its creator
\* while it is as the create left it
C11_Witness ==
    /\ outcome.kind = "detail"
    /\ outcome.task_id \in created_ids
    /\ tasks_db[outcome.task_id].status = "pending"
    /\ tasks_db[outcome.task_id].deadline # None
    /\ tasks_db[outcome.task_id].created_at = now
    /\ request.user_id \notin DOMAIN user_tasks

\* the listing lines of the ids of an index that are in the store, in the
\* order of the index: the icon of the task's status, its id, its title and,
\* for a task with a deadline, the day it is due
RECURSIVE C12_Lines(_, _)
C12_Lines(ids, db) ==
    IF ids = <<>> THEN ""
    ELSE IF Head(ids) \notin DOMAIN db THEN C12_Lines(Tail(ids), db)
    ELSE LET task == db[Head(ids)]
             icon == [pending |-> ":hourglass_flowing_sand:",
                      in_progress |-> ":arrows_counterclockwise:",
                      completed |-> ":white_check_mark:"][task.status]
         IN  icon \o " **" \o Head(ids) \o "** - " \o task.title
             \o (IF task.deadline = None THEN ""
                 ELSE " (Due: " \o StrftimeDay(task.deadline[1]) \o ")")
             \o "\n" \o C12_Lines(Tail(ids), db)

\* C12: list by u replies with the empty-state message when u has no index or
\* an empty one; otherwise the reply is a header, then exactly one line for
\* each id of u's index that is still in the store, in index order, with the
\* task's current status icon, its id and its title, then the footer; an id
\* whose task is gone has no line.
C12_ListReply ==
    outcome.kind = "list" =>
        LET u == request.user_id
        IN  IF u \notin DOMAIN user_tasks \/ user_tasks[u] = <<>>
            THEN response.text =
                    ":mailbox_with_no_mail: You don't have any tasks yet! Use '/task create <task description>' to create one."
            ELSE \E n \in 0..Len(user_tasks[u]) :
                    response.text =
                        ":clipboard: **Your Tasks (" \o ToStr(n) \o "):**\n\n"
                        \o C12_Lines(user_tasks[u], tasks_db)
                        \o "\n:bulb: Use '/task show <task_id>' to see details or '/task update <task_id> <status>' to update status."

\* a user lists an index that holds a completed task and an id whose task
\* another user deleted
C12_Witness ==
    /\ outcome.kind = "list"
    /\ request.user_id \in DOMAIN user_tasks
    /\ \E i, j \in 1..Len(user_tasks[request.user_id]) :
          /\ user_tasks[request.user_id][i] \notin DOMAIN tasks_db
          /\ user_tasks[request.user_id][j] \in DOMAIN tasks_db
          /\ tasks_db[user_tasks[request.user_id][j]].status = "completed"

\* the argument and the result of the extractor, once it has run
ExtractedText == input[1].text
ExtractedAt == input[1].at
Extraction == extracted[1]

\* C14: a matched fragment that contains 'tomorrow' gives the deadline now + 1
\* day and the fragment 'in N days' gives now + N days; "Review proposal by
\* tomorrow" gives the title "Review proposal", that deadline and no
\* description, and "Submit report in 3 days" gives the title "Submit report"
\* and the deadline now + 3 days.
C14_RelativeDeadlines ==
    extracted # None =>
        \A frag \in {DeadlineText(ExtractedText)} :
            /\ Contains(Lower(frag), "tomorrow")
                  => Extraction.deadline = Some(ExtractedAt + TicksPerDay)
            /\ \A n \in 0..31 :
                  frag \in {"in " \o ToStr(n) \o " days", "in " \o ToStr(n) \o " day"}
                     => Extraction.deadline = Some(ExtractedAt + n * TicksPerDay)
            /\ ExtractedText = "Review proposal by tomorrow"
                  => Extraction = [title |-> "Review proposal", description |-> None,
                                   deadline |-> Some(ExtractedAt + TicksPerDay)]
            /\ ExtractedText = "Submit report in 3 days"
                  => /\ Extraction.title = "Submit report"
                     /\ Extraction.deadline = Some(ExtractedAt + 3 * TicksPerDay)

\* the extractor has returned for a text that ends in 'in 20 days', read
\* after the clock has moved on
C14_Witness ==
    /\ extracted # None
    /\ ExtractedText = "Ship in 20 days"
    /\ ExtractedAt > 0
    /\ Extraction.title = "Ship"
    /\ Extraction.deadline = Some(ExtractedAt + 20 * TicksPerDay)

\* the title and the description the rule of C15 gives for a remainder r: the
\* first line and the rest when r has more than one line, the text before
\* and after the first period when its one line has a period, each trimmed
C15_Title(r) ==
    IF Contains(r, "\n") THEN Strip(SubSeq(r, 1, Find(r, "\n") - 1))
    ELSE IF Contains(r, ".") THEN Strip(SubSeq(r, 1, Find(r, ".") - 1))
    ELSE Strip(r)

C15_Description(r) ==
    IF Contains(r, "\n") THEN Some(Strip(SubSeq(r, Find(r, "\n") + 1, Len(r))))
    ELSE IF Contains(r, ".") THEN Some(Strip(SubSeq(r, Find(r, ".") + 1, Len(r))))
    ELSE None

C15_Examples ==
    /\ ExtractedText = "Plan trip\nBook flights and hotel"
          => Extraction = [title |-> "Plan trip",
                           description |-> Some("Book flights and hotel"),
                           deadline |-> None]
    /\ ExtractedText = "Call client. Discuss contract terms"
          => /\ Extraction.title = "Call client"
             /\ Extraction.description = Some("Discuss contract terms")

\* C15 as stated: the title is always the first line, or the text before the
\* first period, trimmed.
C15_SplitAsStated ==
    extracted # None =>
        \A r \in {StripDeadline(ExtractedText, DeadlineText(ExtractedText))} :
            /\ Extraction.title = C15_Title(r)
            /\ Extraction.description = C15_Description(r)
            /\ C15_Examples

\* C15 (amended): the deadline-stripped remainder is split into the first line
\* and the remaining lines when it has more than one line, and at its first
\* period when its single line has one, each part trimmed; otherwise the
\* description is absent; a title that comes out empty is replaced by the
\* whole remainder.  The two example texts give the stated results.
C15_SplitWithFallback ==
    extracted # None =>
        \A r \in {StripDeadline(ExtractedText, DeadlineText(ExtractedText))} :
            /\ Extraction.title = IF C15_Title(r) # "" THEN C15_Title(r) ELSE r
            /\ Extraction.description = C15_Description(r)
            /\ C15_Examples

\* the extractor has returned for a text that starts with a period: nothing
\* stands before the period, and the title is the whole text
C15_Witness ==
    /\ extracted # None
    /\ ExtractedText = ".hidden"
    /\ Extraction.title = ".hidden"
    /\ Extraction.description = Some("hidden")

\* C17: only the first occurrence of the matched fragment is removed: when the
\* text of the fragment occurs twice in the input, the second occurrence is
\* still in the title or in the description.
C17_SecondOccurrenceStays ==
    extracted # None =>
        \A frag \in {DeadlineText(ExtractedText)} :
            (/\ frag # ""
             /\ Cardinality({i \in 1..Len(ExtractedText) :
                                StartsAt(ExtractedText, i, frag)}) >= 2)
            => \/ Contains(Extraction.title, frag)
               \/ /\ Extraction.description # None
                  /\ Contains(Extraction.description[1], frag)

\* the place in the list of the first pattern that matches somewhere in the
\* text, 0 when none does
C18_FirstPattern(text) ==
    IF \E n \in 1..6 : re_search(n, text).start > 0
    THEN CHOOSE n \in 1..6 :
            /\ re_search(n, text).start > 0
            /\ \A k \in 1..(n - 1) : re_search(k, text).start = 0
    ELSE 0

\* the text that pattern n matches in the text
C18_Fragment(n, text) == SubSeq(text, re_search(n, text).start, re_search(n, text).end)

\* C18: the six patterns are tried in their fixed order and only the first one
\* that matches anywhere in the text is used: the deadline is what its fragment
\* resolves to, absent when it does not resolve, whatever a later pattern
\* would have matched, and the title and the description are those of the text
\* without that fragment, whether it resolved or not.  The extractor returns
\* a result for every text.
C18_FirstPatternOnly ==
    extracted # None =>
        /\ \A n \in {C18_FirstPattern(ExtractedText)} :
              /\ n = 0 => Extraction.deadline = None
              /\ n > 0 =>
                    \A frag \in {C18_Fragment(n, ExtractedText)} :
                        /\ Extraction.deadline = ResolveDeadline(frag, ExtractedAt)
                        /\ [title |-> Extraction.title, description |-> Extraction.description]
                              = SplitTitle(StripDeadline(ExtractedText, frag))
        /\ ExtractedText = "Report by friday"
              => Extraction = [title |-> "Report", description |-> None, deadline |-> None]
        /\ ExtractedText = "99/99 monday"
              => Extraction = [title |-> "monday", description |-> None, deadline |-> None]
        /\ ExtractedText = "by x tomorrow"
              => Extraction = [title |-> "tomorrow", description |-> None, deadline |-> None]
        /\ ExtractedText = "3/4 today"
              => /\ Extraction.title = "3/4"
                 /\ Extraction.deadline # None
                 /\ Extraction.deadline[1] \div TicksPerDay = ExtractedAt \div TicksPerDay
        /\ ExtractedText = "in 5 days on monday"
              => /\ Extraction.title = "on monday"
                 /\ Extraction.deadline = Some(ExtractedAt + 5 * TicksPerDay)

\* the extractor has returned for a text whose preposition phrase does not
\* resolve and holds a weekday name, which the last pattern would have matched
C18_Witness ==
    /\ extracted # None
    /\ ExtractedText = "Report by friday"
    /\ re_search(6, ExtractedText).start > 0
    /\ C18_FirstPattern(ExtractedText) = 1
    /\ Extraction.deadline = None
    /\ Extraction.title = "Report"

\* the calls that have returned from a successful create by u with the id t
C13_Created(u, t) ==
    {h \in DOMAIN handlers : /\ handlers[h].pc = "done"
                             /\ handlers[h].kind = "created"
                             /\ handlers[h].user_id = u
                             /\ handlers[h].task_id = t}

\* how often the index of u holds t
C13_Occurrences(u, t) ==
    IF u \in DOMAIN user_tasks
    THEN Cardinality({i \in 1..Len(user_tasks[u]) : user_tasks[u][i] = t})
    ELSE 0

\* a step either touches neither the store nor any index, or it is the whole
\* run of one call from its await to its return
C13_Step ==
    \/ tasks_db' = tasks_db /\ user_tasks' = user_tasks
    \/ \E h \in DOMAIN handlers :
          /\ handlers[h].pc = "form"
          /\ handlers'[h].pc = "done"
          /\ \A g \in DOMAIN handlers \ {h} : handlers'[g] = handlers[g]

\* C13: with handlers running concurrently, the store and the indexes change
\* only in the one step that takes a call from its await to its return, and
\* for any interleaving of creates by a user u, as long as no delete by u has
\* succeeded, the index of u holds one entry with the id of each create by u
\* that has returned: no append is lost.
C13_NoLostAppend ==
    /\ [](\A u \in Users :
             (\A h \in DOMAIN handlers :
                 ~(handlers[h].kind = "deleted" /\ handlers[h].user_id = u))
             => \A t \in TaskIds : C13_Occurrences(u, t) = Cardinality(C13_Created(u, t)))
    /\ [][C13_Step]_vars

\* every handler has returned from a create by the same user, and the index
\* of that user holds as many ids as there are handlers
C13_Witness ==
    /\ handlers # <<>>
    /\ \A h \in DOMAIN handlers :
          /\ handlers[h].pc = "done"
          /\ handlers[h].kind = "created"
          /\ handlers[h].user_id = "U1"
    /\ Len(user_tasks["U1"]) = NumHandlers

\* the index of u, empty when u has none
C16_Index(ut, u) == IF u \in DOMAIN ut THEN ut[u] ELSE <<>>

\* the sequence l without its i-th entry
C16_Without(l, i) == SubSeq(l, 1, i - 1) \o SubSeq(l, i + 1, Len(l))

\* C16: every index is the ids its user created, in creation order, minus the
\* removed entries: a successful create appends the new id at the end of the
\* creator's index, a successful delete removes exactly one entry, an
\* occurrence of the deleted id, and keeps the order of the others, and any
\* other command changes no index.
C16_IndexSteps ==
    [][CASE outcome'.kind = "created" ->
              \A u \in Users :
                  C16_Index(user_tasks', u) =
                      IF u = request'.user_id
                      THEN C16_Index(user_tasks, u) \o <<outcome'.task_id>>
                      ELSE C16_Index(user_tasks, u)
         [] outcome'.kind = "deleted" ->
              \E u \in Users : \E i \in 1..Len(C16_Index(user_tasks, u)) :
                  /\ user_tasks[u][i] = outcome'.task_id
                  /\ C16_Index(user_tasks', u) = C16_Without(user_tasks[u], i)
                  /\ \A v \in Users \ {u} : C16_Index(user_tasks', v) = C16_Index(user_tasks, v)
         [] OTHER ->
              \A u \in Users : C16_Index(user_tasks', u) = C16_Index(user_tasks, u)]_vars

\* how often the index of u holds t
C19_Occurrences(u, t) ==
    IF u \in DOMAIN user_tasks
    THEN Cardinality({i \in 1..Len(user_tasks[u]) : user_tasks[u][i] = t})
    ELSE 0

\* C19: when no id is generated twice, every task in the store is exactly
\* once in the index of the user who created it and in no other index; no
\* index holds an id twice and no id is in the indexes of two users.
C19_OneIndexEntry ==
    /\ \A t \in DOMAIN tasks_db :
          /\ t \in DOMAIN owner
          /\ \A u \in Users : C19_Occurrences(u, t) = IF u = owner[t] THEN 1 ELSE 0
    /\ \A t \in TaskIds :
          /\ \A u \in Users : C19_Occurrences(u, t) <= 1
          /\ Cardinality({u \in Users : C19_Occurrences(u, t) > 0}) <= 1

\* two users have each created a task, one of them has deleted the other's:
\* the store holds a task of a user whose index holds nothing else, and the
\* other index holds an id whose task is gone
C19_Witness ==
    \E t \in DOMAIN tasks_db, d \in DOMAIN owner \ DOMAIN tasks_db :
        /\ owner[t] # owner[d]
        /\ user_tasks[owner[t]] = <<t>>
        /\ user_tasks[owner[d]] = <<d>>

\* the number a listing shows in its header, "Your Tasks (n)"
C20_HeaderCount(text) ==
    ToInt(SubSeq(text, Len(":clipboard: **Your Tasks (") + 1,
                 Len(":clipboard: **Your Tasks (")
                    + DigitRunLen(text, Len(":clipboard: **Your Tasks (") + 1)))

\* the number of task lines of a listing: each has its id between "**" and "** - "
C20_LineCount(text) == Cardinality({i \in 1..Len(text) : StartsAt(text, i, "** - ")})

\* C20: when list replies with a listing, the count in its header is the
\* number of task lines below it.
C20_HeaderCountsLines ==
    (outcome.kind = "list" /\ StartsAt(response.text, 1, ":clipboard: **Your Tasks ("))
        => C20_HeaderCount(response.text) = C20_LineCount(response.text)

=============================================================================
